---- MODULE Spec2Model ----
(***************************************************************************)
(* A model of the `vector` crate (src/src/lib.rs): Vector<T, L>, a vector  *)
(* whose length L is a typenum type-level unsigned integer.                *)
(*                                                                         *)
(* A type-level unsigned is modelled the way typenum builds it: UTerm is   *)
(* the empty bit string and UInt<U, B> is U followed by the bit B, so U3 = *)
(* UInt<UInt<UTerm, B1>, B1> is <<1, 1>>.  Elements of type T are small    *)
(* integers.  One program run constructs one Vector (by one of the three   *)
(* construction paths), then calls len, index, index_mut and fmt on it in  *)
(* any order (Spec), or clones it and assigns through index_mut to the     *)
(* Vector and to its clone (SpecClone); an out-of-range Vec access panics  *)
(* and ends the run.                                                       *)
(***************************************************************************)
EXTENDS Integers, Sequences, FiniteSets, TLC

\* Largest length type and largest Vec size explored.
MaxN == 3
\* Element values are 0..MaxElem.
MaxElem == 1

VARIABLES
    pc,     \* "start" (nothing constructed), "live", "panicked"
    v,      \* the Vector: [inner |-> Vec<T>, length |-> L]
    w,      \* its clones: <<>> or <<Vector>>
    path,   \* the construction path taken: "none", "from", "from_elem", "vector"
    last,   \* the most recent call: [op, tok, arg, comma]
    ret,    \* what that call returned (index: <<element>>, len: <<usize>>)
    out     \* what that call wrote to the Formatter (a sequence of string pieces)

vars == <<pc, v, w, path, last, ret, out>>

----------------------------------------------------------------------------
(* typenum: type-level unsigned integers *)

\* UInt<U, B>: the higher bits U and the least significant bit B.
Hi(u) == SubSeq(u, 1, Len(u) - 1)
Bit(u) == u[Len(u)]

\* typenum::consts::U<n> (re-exported as `length`): the bit string of n.
RECURSIVE UN(_)
UN(n) == IF n = 0 THEN <<>> ELSE Append(UN(n \div 2), n % 2)

\* Unsigned::to_usize / Unsigned::USIZE.
RECURSIVE to_usize(_)
to_usize(u) == IF u = <<>> THEN 0 ELSE 2 * to_usize(Hi(u)) + Bit(u)

\* operator_aliases::Add1<U> = <U as Add<B1>>::Output.
RECURSIVE Add1(_)
Add1(u) ==
    IF u = <<>> THEN <<1>>
    ELSE IF Bit(u) = 0 THEN Append(Hi(u), 1)
    ELSE Append(Add1(Hi(u)), 0)

\* typenum's comparison of two unsigneds: walk both from the least
\* significant bit, remembering the ordering of the lower bits seen so far.
RECURSIVE PrivateCmp(_, _, _)
PrivateCmp(a, b, SoFar) ==
    IF a = <<>> /\ b = <<>> THEN SoFar
    ELSE IF a = <<>> THEN "Less"
    ELSE IF b = <<>> THEN "Greater"
    ELSE PrivateCmp(Hi(a), Hi(b),
                    IF Bit(a) = Bit(b) THEN SoFar
                    ELSE IF Bit(a) < Bit(b) THEN "Less" ELSE "Greater")

Cmp(a, b) == PrivateCmp(a, b, "Equal")

\* The bound `I: IsLess<L, Output=True>` of Index and IndexMut.
IsLessTrue_Lax(I, Lt) == Cmp(I, Lt) # "Greater"
IsLessTrue(I, Lt) == Cmp(I, Lt) = "Less"

----------------------------------------------------------------------------
(* Input domains *)

Elems == 0..MaxElem
Lengths == {UN(n) : n \in 0..MaxN}
Tokens == {UN(n) : n \in 0..(MaxN + 1)}
Vecs == UNION {[1..n -> Elems] : n \in 0..MaxN}

----------------------------------------------------------------------------
(* Vector<T, L> *)

\* Vec<T>'s Index<usize>: a reference to the element, or a panic.
VecIndex(s, i) ==
    IF i < Len(s) THEN [panic |-> FALSE, val |-> s[i + 1]]
    ELSE [panic |-> TRUE, val |-> 0]

\* impl From<Vec<T>> for Vector<T, L>
from_Checked(orig, Lt) ==
    [inner |-> SubSeq(orig, 1, IF Len(orig) < to_usize(Lt) THEN Len(orig) ELSE to_usize(Lt)),
     length |-> Lt]
from(orig, Lt) == [inner |-> orig, length |-> Lt]

\* from_elem: vec![elem; L::USIZE]
from_elem_Short(elem, Lt) ==
    [inner |-> [i \in 1..(to_usize(Lt) - 1) |-> elem], length |-> Lt]
from_elem(elem, Lt) ==
    [inner |-> [i \in 1..to_usize(Lt) |-> elem], length |-> Lt]

\* Vector::len
len_OfStore(self) == Len(self.inner)
len(self) == to_usize(self.length)

\* Index::index
index_OffByOne(self, I) == VecIndex(self.inner, to_usize(I) + 1)
index(self, I) == VecIndex(self.inner, to_usize(I))

\* IndexMut::index_mut followed by the assignment of x through the reference
index_mut_Fill(self, I, x) ==
    IF to_usize(I) < Len(self.inner)
    THEN [panic |-> FALSE,
          vec |-> [self EXCEPT !.inner = [k \in 1..Len(self.inner) |-> x]]]
    ELSE [panic |-> TRUE, vec |-> self]
index_mut(self, I, x) ==
    IF to_usize(I) < Len(self.inner)
    THEN [panic |-> FALSE,
          vec |-> [self EXCEPT !.inner = [self.inner EXCEPT ![to_usize(I) + 1] = x]]]
    ELSE [panic |-> TRUE, vec |-> self]

\* #[derive(Clone)]
clone(self) == [inner |-> self.inner, length |-> self.length]

\* Vec<T>'s Debug: "[", the elements separated by ", ", "]".
RECURSIVE DebugList(_)
DebugList(s) ==
    IF s = <<>> THEN <<>>
    ELSE IF Len(s) = 1 THEN <<ToString(s[1])>>
    ELSE <<ToString(s[1]), ", ">> \o DebugList(Tail(s))

DebugVec(s) == <<"[">> \o DebugList(s) \o <<"]">>

\* impl fmt::Debug: "Vector {{ inner: {:?}, length: {} }}"
fmt_StoreLen(self) ==
    <<"Vector { inner: ">> \o DebugVec(self.inner)
        \o <<", length: ", ToString(Len(self.inner)), " }">>
fmt(self) ==
    <<"Vector { inner: ">> \o DebugVec(self.inner)
        \o <<", length: ", ToString(to_usize(self.length)), " }">>

\* count_expressions!: U1 for one expression, Add1 of the tail's count otherwise.
RECURSIVE count_expressions_FromZero(_)
count_expressions_FromZero(exprs) ==
    IF Len(exprs) = 1 THEN UN(0)
    ELSE Add1(count_expressions_FromZero(Tail(exprs)))
RECURSIVE count_expressions(_)
count_expressions(exprs) ==
    IF Len(exprs) = 1 THEN UN(1)
    ELSE Add1(count_expressions(Tail(exprs)))

\* vector!: the second arm strips the trailing commas and calls the first.
RECURSIVE vector(_, _)
vector(exprs, comma) ==
    IF comma THEN vector(exprs, FALSE)
    ELSE from(exprs, count_expressions(exprs))

----------------------------------------------------------------------------
(* The program run *)

NoVector == [inner |-> <<>>, length |-> <<>>]
Call(op, tok, arg, comma) == [op |-> op, tok |-> tok, arg |-> arg, comma |-> comma]

Init ==
    /\ pc = "start"
    /\ v = NoVector
    /\ w = <<>>
    /\ path = "none"
    /\ last = Call("none", <<>>, <<>>, FALSE)
    /\ ret = <<>>
    /\ out = <<>>

\* Vector::<_, L>::from(orig)
From(orig, Lt) ==
    /\ pc = "start"
    /\ pc' = "live"
    /\ v' = from(orig, Lt)
    /\ path' = "from"
    /\ last' = Call("from", Lt, orig, FALSE)
    /\ ret' = <<>>
    /\ out' = <<>>
    /\ UNCHANGED w

\* from_elem::<L, _>(elem)
FromElem(elem, Lt) ==
    /\ pc = "start"
    /\ pc' = "live"
    /\ v' = from_elem(elem, Lt)
    /\ path' = "from_elem"
    /\ last' = Call("from_elem", Lt, <<elem>>, FALSE)
    /\ ret' = <<>>
    /\ out' = <<>>
    /\ UNCHANGED w

\* vector![e1, ..., eN] and vector![e1, ..., eN,]; neither arm of
\* count_expressions! matches an empty list, so N >= 1.
VectorMacro(exprs, comma) ==
    /\ pc = "start"
    /\ Len(exprs) >= 1
    /\ pc' = "live"
    /\ v' = vector(exprs, comma)
    /\ path' = "vector"
    /\ last' = Call("vector", <<>>, exprs, comma)
    /\ ret' = <<>>
    /\ out' = <<>>
    /\ UNCHANGED w

\* v.len()
LenCall ==
    /\ pc = "live"
    /\ ret' = <<len(v)>>
    /\ last' = Call("len", <<>>, <<>>, FALSE)
    /\ out' = <<>>
    /\ UNCHANGED <<pc, v, w, path>>

\* v[I] read
Index(I) ==
    /\ pc = "live"
    /\ IsLessTrue(I, v.length)
    /\ LET r == index(v, I) IN
         /\ pc' = IF r.panic THEN "panicked" ELSE pc
         /\ ret' = IF r.panic THEN <<>> ELSE <<r.val>>
    /\ last' = Call("index", I, <<>>, FALSE)
    /\ out' = <<>>
    /\ UNCHANGED <<v, w, path>>

\* v[I] = x
IndexMut(I, x) ==
    /\ pc = "live"
    /\ IsLessTrue(I, v.length)
    /\ LET r == index_mut(v, I, x) IN
         /\ pc' = IF r.panic THEN "panicked" ELSE pc
         /\ v' = r.vec
    /\ last' = Call("index_mut", I, <<x>>, FALSE)
    /\ ret' = <<>>
    /\ out' = <<>>
    /\ UNCHANGED <<w, path>>

\* v[I] where the bound I: IsLess<L, Output=True> does not hold: the
\* expression is rejected by the type checker and nothing is accessed.
IndexRejected(I) ==
    /\ pc = "live"
    /\ ~IsLessTrue(I, v.length)
    /\ last' = Call("rejected", I, <<>>, FALSE)
    /\ ret' = <<>>
    /\ out' = <<>>
    /\ UNCHANGED <<pc, v, w, path>>

\* format!("{:?}", v)
Fmt ==
    /\ pc = "live"
    /\ out' = fmt(v)
    /\ last' = Call("fmt", <<>>, <<>>, FALSE)
    /\ ret' = <<>>
    /\ UNCHANGED <<pc, v, w, path>>

\* let w = v.clone()
Clone ==
    /\ pc = "live"
    /\ w = <<>>
    /\ w' = <<clone(v)>>
    /\ last' = Call("clone", <<>>, <<>>, FALSE)
    /\ ret' = <<>>
    /\ out' = <<>>
    /\ UNCHANGED <<pc, v, path>>

\* w[I] = x on the clone
IndexMutClone(I, x) ==
    /\ pc = "live"
    /\ w # <<>>
    /\ IsLessTrue(I, w[1].length)
    /\ LET r == index_mut(w[1], I, x) IN
         /\ pc' = IF r.panic THEN "panicked" ELSE pc
         /\ w' = <<r.vec>>
    /\ last' = Call("index_mut_clone", I, <<x>>, FALSE)
    /\ ret' = <<>>
    /\ out' = <<>>
    /\ UNCHANGED <<v, path>>

Next ==
    \/ \E orig \in Vecs, Lt \in Lengths : From(orig, Lt)
    \/ \E elem \in Elems, Lt \in Lengths : FromElem(elem, Lt)
    \/ \E exprs \in Vecs, comma \in BOOLEAN : VectorMacro(exprs, comma)
    \/ LenCall
    \/ \E I \in Tokens : Index(I)
    \/ \E I \in Tokens, x \in Elems : IndexMut(I, x)
    \/ \E I \in Tokens : IndexRejected(I)
    \/ Fmt

\* Runs that use only the Vector itself.
Spec == Init /\ [][Next]_vars

NextClone ==
    \/ \E orig \in Vecs, Lt \in Lengths : From(orig, Lt)
    \/ \E elem \in Elems, Lt \in Lengths : FromElem(elem, Lt)
    \/ \E exprs \in Vecs, comma \in BOOLEAN : VectorMacro(exprs, comma)
    \/ \E I \in Tokens, x \in Elems : IndexMut(I, x)
    \/ Clone
    \/ \E I \in Tokens, x \in Elems : IndexMutClone(I, x)

\* Runs that construct, clone and mutate the Vector and its clone.
SpecClone == Init /\ [][NextClone]_vars

----------------------------------------------------------------------------
(* Properties *)

Ok(x) == [panic |-> FALSE, val |-> x]

\* C1: in every state after construction, by any of the three paths, the
\* backing store holds exactly as many elements as the value of L.
C1_SizeInvariant ==
    pc # "start" => Len(v.inner) = to_usize(v.length)

\* C2: index and index_mut with a token I for which I < L is proved never
\* panic, whatever path constructed the Vector.
C2_IndexNeverPanics ==
    last.op \in {"index", "index_mut"} => pc # "panicked"

\* C3: index and index_mut with token I are accepted exactly when the
\* integer value of I is strictly less than the value of L; a token with
\* value(I) >= value(L) is rejected and produces no access.
C3_AcceptedIffLess ==
    /\ pc = "live" =>
         \A I \in Tokens :
           /\ IsLessTrue(I, v.length) <=> to_usize(I) < to_usize(v.length)
           /\ (ENABLED Index(I)) <=> to_usize(I) < to_usize(v.length)
           /\ \A x \in Elems :
                (ENABLED IndexMut(I, x)) <=> to_usize(I) < to_usize(v.length)
    /\ last.op \in {"index", "index_mut"} =>
         to_usize(last.tok) < to_usize(v.length)
    /\ last.op = "rejected" =>
         to_usize(last.tok) >= to_usize(v.length) /\ ret = <<>> /\ pc = "live"

\* C3 witness: the token _3 was rejected on a vector! of three expressions.
C3_Witness ==
    /\ last.op = "rejected"
    /\ path = "vector"
    /\ last.tok = UN(3)
    /\ v.length = UN(3)
    /\ ENABLED Index(UN(2))

\* C4: from_elem::<N>(e) reports len() = N, holds exactly N elements, and
\* index(I) yields e for every token I < N (N = 0 gives an empty Vector).
C4_FromElem ==
    /\ last.op = "from_elem" =>
         LET N == to_usize(last.tok)
             e == last.arg[1]
         IN /\ pc = "live"
            /\ len(v) = N
            /\ Len(v.inner) = N
            /\ \A K \in 0..(MaxN + 1) : K < N => index(v, UN(K)) = Ok(e)
    /\ (path = "from_elem" /\ last.op = "len") => ret = <<Len(v.inner)>>

\* C4 witness: from_elem::<U3, _>(e) has just run.
C4_Witness ==
    last.op = "from_elem" /\ last.tok = UN(3) /\ Len(v.inner) = 3

\* C5: for a literal list of N >= 1 expressions, count_expressions! has
\* value N, the Vector reports len() = N, index(K) yields the K-th expression
\* in source order, and the trailing-comma form builds the same Vector.
C5_VectorMacro ==
    last.op = "vector" =>
        LET exprs == last.arg
            N == Len(exprs)
        IN /\ N >= 1
           /\ pc = "live"
           /\ to_usize(count_expressions(exprs)) = N
           /\ to_usize(v.length) = N
           /\ len(v) = N
           /\ Len(v.inner) = N
           /\ \A K \in 0..(N - 1) : index(v, UN(K)) = Ok(exprs[K + 1])
           /\ v = vector(exprs, ~last.comma)

\* C5 witness: vector![e0, e1, e2,] with three expressions and a trailing comma.
C5_Witness ==
    last.op = "vector" /\ last.comma /\ Len(last.arg) = 3 /\ last.arg[1] # last.arg[2]

\* C6: after v[I] = x, an immediately following read v[I] with the same token
\* returns x.
C6_WriteThenRead ==
    [][(last.op = "index_mut" /\ last'.op = "index" /\ last'.tok = last.tok)
         => (pc' = "live" /\ ret' = last.arg)]_vars

\* C6 witness: x was just written at position 1 of a three-element Vector
\* whose other positions hold another value, and the read v[_1] can follow.
C6_Witness ==
    /\ last.op = "index_mut"
    /\ pc = "live"
    /\ last.tok = UN(1)
    /\ Len(v.inner) = 3
    /\ v.inner[2] = last.arg[1]
    /\ v.inner[1] # v.inner[2]
    /\ v.inner[3] # v.inner[2]
    /\ ENABLED Index(UN(1))

\* C7: len() returns the value of L whatever the backing store holds, and no
\* operation on a constructed Vector changes what len() reports.
C7_LenIsTypeLevel ==
    [][/\ pc = "live" => len(v') = len(v) /\ v'.length = v.length
       /\ last'.op = "len" => ret' = <<to_usize(v.length)>>]_vars

\* C7 witness: len() returned 3 for a Vector whose store holds 2 elements.
C7_Witness ==
    /\ last.op = "len"
    /\ ret = <<3>>
    /\ Len(v.inner) = 2
    /\ v.length = UN(3)

\* C8: From<Vec<T>> with a sequence whose size differs from L raises no error:
\* it stores the sequence unchanged, len() is the value of L and the stored
\* element count is the sequence's size.
C8_FromUnchecked ==
    last.op = "from" =>
        /\ pc = "live"
        /\ v.inner = last.arg
        /\ Len(v.inner) = Len(last.arg)
        /\ len(v) = to_usize(last.tok)
        /\ v.length = last.tok

\* C8 witness: Vector::<_, U3>::from of a two-element Vec.
C8_Witness ==
    last.op = "from" /\ Len(last.arg) = 2 /\ last.tok = UN(3) /\ pc = "live"

\* C9: the Debug output holds every stored element, in order, and the value
\* of L, as the store is at the time of the call.
C9_DebugRendering ==
    last.op = "fmt" =>
        LET n == Len(v.inner)
            m == Len(out)
        IN /\ m = (IF n = 0 THEN 0 ELSE 2 * n - 1) + 6
           /\ out[1] = "Vector { inner: "
           /\ out[2] = "["
           /\ \A k \in 1..n : out[2 * k + 1] = ToString(v.inner[k])
           /\ \A k \in 1..(n - 1) : out[2 * k + 2] = ", "
           /\ out[m - 3] = "]"
           /\ out[m - 2] = ", length: "
           /\ out[m - 1] = ToString(to_usize(v.length))
           /\ out[m] = " }"

\* C9 witness: a from_elem Vector of three elements rendered after a mutation.
C9_Witness ==
    /\ last.op = "fmt"
    /\ path = "from_elem"
    /\ Len(v.inner) = 3
    /\ v.length = UN(3)
    /\ v.inner[1] # v.inner[2]

\* C10: v[I] = x changes only position value(I): every other position and the
\* element count stay as they were; a clone and its original do not affect
\* each other.
C10_Frame ==
    [][/\ last'.op = "index_mut" =>
            /\ Len(v'.inner) = Len(v.inner)
            /\ v'.length = v.length
            /\ \A j \in 1..Len(v.inner) :
                 j # to_usize(last'.tok) + 1 => v'.inner[j] = v.inner[j]
            /\ pc' = "live" => v'.inner[to_usize(last'.tok) + 1] = last'.arg[1]
            /\ w' = w
       /\ last'.op = "index_mut_clone" =>
            /\ v' = v
            /\ Len(w'[1].inner) = Len(w[1].inner)
            /\ \A j \in 1..Len(w[1].inner) :
                 j # to_usize(last'.tok) + 1 => w'[1].inner[j] = w[1].inner[j]
            /\ pc' = "live" => w'[1].inner[to_usize(last'.tok) + 1] = last'.arg[1]
       /\ last'.op = "clone" => v' = v /\ w' = <<v>>]_vars

\* C10 witness: the clone of a from_elem Vector was mutated at position 1; the
\* original still holds three equal elements.
C10_Witness ==
    /\ last.op = "index_mut_clone"
    /\ path = "from_elem"
    /\ Len(v.inner) = 3
    /\ v.inner[1] = v.inner[2]
    /\ v.inner[2] = v.inner[3]
    /\ w[1].inner[2] # v.inner[2]
    /\ w[1].inner[1] = v.inner[1]
    /\ w[1].inner[3] = v.inner[3]

====
